---- MODULE Spec2Model ----
(***************************************************************************)
(* Model of blendersynth/run/blender_threading.py: list_split, the lane    *)
(* object BlenderThread and the coordinator BlenderThreadManager.start.    *)
(*                                                                         *)
(* Worker processes are the environment: a live process may append one     *)
(* progress marker line (LOG_PREPEND) per job of its batch to the lane's   *)
(* log, and may exit at any moment (with all, some or none of its markers  *)
(* written) or never.  Time is a clock of whole ticks.                     *)
(***************************************************************************)
EXTENDS Integers, Sequences, FiniteSets, TLC

\* BlenderThreadManager.num_threads = len(jsons): the sessions have two lanes
num_threads == 2

\* ---- bounds of the model ----
MaxSessionJobs == 3  \* most jobs of a session
MaxPerJobRun == 2    \* largest MAX_PER_JOB of a session
MaxTime == 2         \* last tick of the clock
Timeout == 1         \* BlenderThread.timeout, in ticks
ReportEvery == 1     \* start(report_every=...), in ticks
MaxJobs == 9         \* longest job list given to the chunking alone
MaxPerJob == 6       \* largest MAX_PER_JOB given to the chunking alone
MaxSetupJobs == 4    \* longest job list given to the setup of a session
MaxLanes == 3        \* largest lane count given to the setup
MaxSetupPerJob == 2  \* largest MAX_PER_JOB given to the setup
MaxNonPositive == 1  \* lane counts and MAX_PER_JOB go down to -MaxNonPositive

Threads == 0 .. num_threads - 1

VARIABLES
    progress_bars,      \* argument of start()
    size,               \* size[l]      BlenderThread.size
    jobs,               \* jobs[l]      BlenderThread.jobs, the lane's batches
    job,                \* job[l]       BlenderThread.job, index of the current batch
    finished,           \* finished[l]  BlenderThread.finished
    status,             \* status[l]    BlenderThread.status
    procs,              \* procs[l]     every Popen of the lane, in launch order;
                        \*              BlenderThread.process is the last one
    log,                \* log[l]       marker lines in the lane's log file
    prev_n,             \* prev_n[l]    BlenderThread.prev_n
    timer,              \* timer[l]     BlenderThread.timer
    now,                \* perf_counter()
    pc,                 \* position of the coordinator inside start()
    idx,                \* lane index of the for loop the coordinator is in
    t0,                 \* BlenderThreadManager.t0
    last_report_time,   \* local of start()
    report,             \* content of the report file
    loopExited,         \* the while condition of start() has evaluated to False
    statusRet,          \* statusRet[l] last value returned by check_status
    obsMax,             \* obsMax[l]    largest count any check_status poll observed
    obsTime,            \* obsTime[l]   time of the last poll that observed an increase
    in_jobs,            \* chunking alone: the lane's job list
    in_max,             \* chunking alone: MAX_PER_JOB
    out,                \* chunking alone: outcome of the chunking
    in_lanes,           \* setup: the lane count given to list_split
    split_out,          \* setup: outcome of list_split(jobs, lanes)
    built,              \* setup: outcome of the construction of each lane
    setup_pc            \* setup: split, construct, ready, started or error

laneVars == <<job, finished, status, procs>>
stallVars == <<prev_n, timer, statusRet, obsMax, obsTime>>
cfgVars == <<progress_bars, size, jobs>>
chunkVars == <<in_jobs, in_max, out, in_lanes, split_out, built, setup_pc>>
coordVars == <<pc, idx, t0, last_report_time, report, loopExited>>
vars == <<cfgVars, laneVars, stallVars, log, now, coordVars, chunkVars>>

\* ---------------------------------------------------------------------
\* list_split and the chunking of BlenderThread.__init__

Min(a, b) == IF a <= b THEN a ELSE b

\* np.ceil(n / m) for n >= 0, m # 0
Ceil(n, m) == IF m > 0 THEN (n + m - 1) \div m ELSE -(n \div (-m))

\* sections filled to ceil(n / k) elements each, the last one with the rest
DivPointGreedy(n, k, i) == Min(i * Ceil(n, k), n)

\* sections of n \div k elements each, the n % k extra elements left out
DivPointNoExtras(n, k, i) == i * (n \div k)

\* np.array_split: the end of section i (0 = start of the list) when a list
\* of n elements is cut in k sections: the first n % k sections hold
\* n \div k + 1 elements, the others n \div k
DivPoint(n, k, i) == i * (n \div k) + Min(i, n % k)

\* list_split without the ValueError: no section for a count that is not positive
list_split_unchecked(list, chunks) ==
    [err |-> "none",
     parts |-> [i \in 1 .. chunks |->
                 SubSeq(list,
                        DivPoint(Len(list), chunks, i - 1) + 1,
                        DivPoint(Len(list), chunks, i))]]

\* list_split(list, chunks): np.array_split raises ValueError when the
\* number of sections is not positive
list_split(list, chunks) ==
    IF chunks <= 0
    THEN [err |-> "ValueError", parts |-> << >>]
    ELSE [err |-> "none",
          parts |-> [i \in 1 .. chunks |->
                      SubSeq(list,
                             DivPoint(Len(list), chunks, i - 1) + 1,
                             DivPoint(Len(list), chunks, i))]]

\* self.jobs = list_split(jobs, np.ceil(len(jobs)/MAX_PER_JOB)); the division
\* by a MAX_PER_JOB of 0 raises ZeroDivisionError
ChunkJobs(list, max) ==
    IF max = 0
    THEN [err |-> "ZeroDivisionError", parts |-> << >>]
    ELSE list_split(list, Ceil(Len(list), max))

JobList(n) == [i \in 1 .. n |-> i]

\* ---------------------------------------------------------------------
\* BlenderThread

RECURSIVE SumTo(_, _)
\* f[0] + ... + f[k]
SumTo(f, k) == IF k < 0 THEN 0 ELSE f[k] + SumTo(f, k - 1)

\* the Popen object self.process refers to (only read when one exists)
process(l) == procs[l][Len(procs[l])]

\* BlenderThread.njobs
njobs(l) == Len(jobs[l])

\* is_running without the poll of the process: true once a process exists
is_running_unpolled(l) == Len(procs[l]) > 0

\* BlenderThread.is_running: a process exists and poll() is None
is_running(l) == Len(procs[l]) > 0 /\ process(l).alive

\* the marker lines of the current process alone, as if each process had a
\* log file of its own
num_rendered_per_process(l) == IF Len(procs[l]) = 0 THEN 0 ELSE process(l).emitted

\* BlenderThread.num_rendered: 0 before the first process, else the marker
\* lines of the lane's log file (one file per lane, opened in append mode)
num_rendered(l) == IF Len(procs[l]) = 0 THEN 0 ELSE log[l]

\* BlenderThread.success
success(l) == num_rendered(l) = size[l]

\* start_job called as start_job(), with the default job=0 in place of the
\* lane's batch index
start_job_first(l, b) ==
    [procs EXCEPT ![l] = Append(@, [batch |-> 0, alive |-> TRUE, emitted |-> 0,
                                    started |-> now])]

\* BlenderThread.start_job: Popen of the command for batch b; the record of
\* the process keeps the time of its launch
start_job(l, b) ==
    [procs EXCEPT ![l] = Append(@, [batch |-> b, alive |-> TRUE, emitted |-> 0,
                                    started |-> now])]

\* check_in with the early return on a running process left out
check_in_unguarded(l) ==
    /\ job' = [job EXCEPT ![l] = @ + 1]
    /\ IF job[l] + 1 >= njobs(l)
       THEN /\ finished' = [finished EXCEPT ![l] = TRUE]
            /\ status' = [status EXCEPT ![l] = [text |-> "COMPLETED", n |-> 0]]
            /\ UNCHANGED procs
       ELSE /\ status' = [status EXCEPT ![l] = [text |-> "RUNNING JOB", n |-> job[l] + 2]]
            /\ procs' = start_job(l, job[l] + 1)
            /\ UNCHANGED finished

\* BlenderThread.check_in
check_in(l) ==
    IF is_running(l)
    THEN UNCHANGED laneVars
    ELSE /\ job' = [job EXCEPT ![l] = @ + 1]
         /\ IF job[l] + 1 >= njobs(l)
            THEN /\ finished' = [finished EXCEPT ![l] = TRUE]
                 /\ status' = [status EXCEPT ![l] = [text |-> "COMPLETED", n |-> 0]]
                 /\ UNCHANGED procs
            ELSE /\ status' = [status EXCEPT ![l] = [text |-> "RUNNING JOB", n |-> job[l] + 2]]
                 /\ procs' = start_job(l, job[l] + 1)
                 /\ UNCHANGED finished

\* what a specification of the stall timer keeps: the largest count a poll
\* has observed and the time of the last poll that observed a larger one
Observe(l) ==
    /\ obsMax' = [obsMax EXCEPT ![l] = IF num_rendered(l) > @ THEN num_rendered(l) ELSE @]
    /\ obsTime' = [obsTime EXCEPT ![l] = IF num_rendered(l) > obsMax[l] THEN now ELSE @]

\* check_status with > in the place of >= in the comparison with the timeout
check_status_strict(l) ==
    /\ IF num_rendered(l) > prev_n[l]
       THEN /\ prev_n' = [prev_n EXCEPT ![l] = num_rendered(l)]
            /\ timer' = [timer EXCEPT ![l] = now]
            /\ statusRet' = [statusRet EXCEPT ![l] = "True"]
       ELSE /\ UNCHANGED <<prev_n, timer>>
            /\ statusRet' = [statusRet EXCEPT ![l] =
                               IF now - timer[l] > Timeout THEN "False" ELSE "True"]
    /\ Observe(l)

\* BlenderThread.check_status; the value returned is kept in statusRet[l]
check_status(l) ==
    /\ IF num_rendered(l) > prev_n[l]
       THEN /\ prev_n' = [prev_n EXCEPT ![l] = num_rendered(l)]
            /\ timer' = [timer EXCEPT ![l] = now]
            /\ statusRet' = [statusRet EXCEPT ![l] = "True"]
       ELSE /\ UNCHANGED <<prev_n, timer>>
            /\ statusRet' = [statusRet EXCEPT ![l] =
                               IF now - timer[l] >= Timeout THEN "False" ELSE "True"]
    /\ Observe(l)

\* ---------------------------------------------------------------------
\* BlenderThreadManager

\* the number of batches of the lane, in the place of its jobs
thread_len_batches(l) == njobs(l)

\* BlenderThread.__len__
thread_len(l) == size[l]

\* BlenderThreadManager.__len__
SessionLen == SumTo([l \in Threads |-> thread_len(l)], num_threads - 1)

\* BlenderThreadManager.num_rendered
SessionRendered == SumTo([l \in Threads |-> num_rendered(l)], num_threads - 1)

NoReport == [content |-> "unwritten", rendered |-> 0, quota |-> 0, elapsed |-> 0, remaining |-> 0]

\* update_report without the test of the number rendered
update_report_unguarded ==
    report' = [content |-> "fields", rendered |-> SessionRendered,
               quota |-> SessionLen, elapsed |-> now - t0,
               remaining |-> SessionLen - SessionRendered]

\* BlenderThreadManager.update_report: the file is rewritten on every call,
\* with no line when nothing has been rendered
update_report ==
    report' = IF SessionRendered > 0
              THEN [content |-> "fields", rendered |-> SessionRendered,
                    quota |-> SessionLen, elapsed |-> now - t0,
                    remaining |-> SessionLen - SessionRendered]
              ELSE [content |-> "empty", rendered |-> 0, quota |-> 0,
                    elapsed |-> 0, remaining |-> 0]

\* the for loop over the lanes moves on, or the body of the while loop ends
NextLane(l) ==
    IF l + 1 = num_threads
    THEN pc' = "while" /\ idx' = 0
    ELSE pc' = "lane" /\ idx' = l + 1

NotCalled == [err |-> "not called", parts |-> << >>]

\* the lanes of a session: its n jobs split over the lanes with list_split
Lanes(n) == list_split(JobList(n), num_threads).parts

\* state after BlenderThreadManager.__init__ has built the lanes, each from a
\* non-empty job list (the construction of a lane without jobs raises)
Init ==
    /\ progress_bars \in BOOLEAN
    /\ \E n \in num_threads .. MaxSessionJobs, m \in 1 .. MaxPerJobRun :
          /\ size = [l \in Threads |-> Len(Lanes(n)[l + 1])]
          /\ jobs = [l \in Threads |-> ChunkJobs(Lanes(n)[l + 1], m).parts]
    /\ job = [l \in Threads |-> -1]
    /\ finished = [l \in Threads |-> FALSE]
    /\ status = [l \in Threads |-> [text |-> "STARTED THREAD", n |-> 0]]
    /\ procs = [l \in Threads |-> << >>]
    /\ log = [l \in Threads |-> 0]
    /\ prev_n = [l \in Threads |-> 0]
    /\ timer = [l \in Threads |-> 0]
    /\ statusRet = [l \in Threads |-> "none"]
    /\ obsMax = [l \in Threads |-> 0]
    /\ obsTime = [l \in Threads |-> 0]
    /\ now = 0
    /\ pc = "start"
    /\ idx = 0
    /\ t0 = 0
    /\ last_report_time = 0
    /\ report = NoReport
    /\ loopExited = FALSE
    /\ in_jobs = << >>
    /\ in_max = 1
    /\ out = NotCalled
    /\ in_lanes = 1
    /\ split_out = NotCalled
    /\ built = << >>
    /\ setup_pc = "idle"

\* ---- the environment ----

\* perf_counter() advances
Tick ==
    /\ now < MaxTime
    /\ now' = now + 1
    /\ UNCHANGED <<cfgVars, laneVars, stallVars, log, coordVars, chunkVars>>

\* a live worker process finishes a job of its batch and writes its marker line
Emit(l) ==
    \E k \in 1 .. Len(procs[l]) :
        /\ procs[l][k].alive
        /\ procs[l][k].emitted < Len(jobs[l][procs[l][k].batch + 1])
        /\ procs' = [procs EXCEPT ![l][k].emitted = @ + 1]
        /\ log' = [log EXCEPT ![l] = @ + 1]
        /\ UNCHANGED <<cfgVars, job, finished, status, stallVars, now, coordVars, chunkVars>>

\* a live worker process exits, whatever it has written
ProcExit(l) ==
    \E k \in 1 .. Len(procs[l]) :
        /\ procs[l][k].alive
        /\ procs' = [procs EXCEPT ![l][k].alive = FALSE]
        /\ UNCHANGED <<cfgVars, job, finished, status, stallVars, log, now, coordVars, chunkVars>>

\* ---- BlenderThreadManager.start ----

\* lines 175-176
Start ==
    /\ pc = "start"
    /\ t0' = now
    /\ pc' = "seed"
    /\ idx' = 0
    /\ UNCHANGED <<cfgVars, laneVars, stallVars, log, now, last_report_time, report,
                   loopExited, chunkVars>>

\* lines 177-182: one check_in per lane, then last_report_time, then either
\* the loop (progress_bars) or the end of start()
SeedCheckIn ==
    /\ pc = "seed"
    /\ check_in(idx)
    /\ IF idx + 1 = num_threads
       THEN /\ last_report_time' = now
            /\ pc' = IF progress_bars THEN "while" ELSE "done"
            /\ idx' = 0
       ELSE /\ idx' = idx + 1
            /\ UNCHANGED <<pc, last_report_time>>
    /\ UNCHANGED <<cfgVars, stallVars, log, now, t0, report, loopExited, chunkVars>>

\* lines 191-206: the while condition, then (after the sleep) the overall
\* progress bar and the periodic report
LoopTest ==
    /\ pc = "while"
    /\ IF \E l \in Threads : is_running(l)
       THEN /\ pc' = "lane"
            /\ idx' = 0
            /\ IF now - last_report_time >= ReportEvery
               THEN update_report /\ last_report_time' = now
               ELSE UNCHANGED <<report, last_report_time>>
            /\ UNCHANGED loopExited
       ELSE /\ pc' = "final"
            /\ loopExited' = TRUE
            /\ UNCHANGED <<idx, report, last_report_time>>
    /\ UNCHANGED <<cfgVars, laneVars, stallVars, log, now, t0, chunkVars>>

\* one lane of the for loop without 'if thread.finished: continue'
LaneStepNoSkip ==
    /\ pc = "lane"
    /\ check_in(idx)
    /\ IF success(idx)
       THEN UNCHANGED stallVars
       ELSE check_status(idx)
    /\ NextLane(idx)
    /\ UNCHANGED <<cfgVars, log, now, t0, last_report_time, report, loopExited, chunkVars>>

\* lines 209-228, one lane of the for loop: a finished lane is skipped; else
\* check_in, then check_status unless the lane has rendered everything; the
\* branch of a failed lane only prints.  The three calls are one step: check_in
\* reads the liveness of the process only and the two others the log only, so
\* a marker written or an exit between them is as one before or after them;
\* and every lane has a process since the first check_in of start(), so
\* num_rendered reads the log before and after check_in alike.
LaneStep ==
    /\ pc = "lane"
    /\ IF finished[idx]
       THEN UNCHANGED <<laneVars, stallVars>>
       ELSE /\ check_in(idx)
            /\ IF success(idx)
               THEN UNCHANGED stallVars
               ELSE check_status(idx)
    /\ NextLane(idx)
    /\ UNCHANGED <<cfgVars, log, now, t0, last_report_time, report, loopExited, chunkVars>>

\* line 230: the report written after the loop
FinalReport ==
    /\ pc = "final"
    /\ update_report
    /\ pc' = "done"
    /\ UNCHANGED <<cfgVars, laneVars, stallVars, log, now, idx, t0, last_report_time,
                   loopExited, chunkVars>>

Next ==
    \/ Tick
    \/ \E l \in Threads : Emit(l)
    \/ \E l \in Threads : ProcExit(l)
    \/ Start
    \/ SeedCheckIn
    \/ LoopTest
    \/ LaneStep
    \/ FinalReport

Spec == Init /\ [][Next]_vars

\* the steps of start()
Coordinator == Start \/ SeedCheckIn \/ LoopTest \/ LaneStep \/ FinalReport

\* start() keeps taking steps and every worker process launched exits in the end
SpecFair ==
    /\ Init
    /\ [][Next]_vars
    /\ WF_vars(Coordinator)
    /\ \A l \in Threads : WF_vars(ProcExit(l))

\* ---------------------------------------------------------------------
\* The chunking alone: BlenderThread.__init__ applied to one job list

\* a session that is not started, beside which the chunking is applied
InitChunk ==
    /\ in_jobs \in {JobList(n) : n \in 0 .. MaxJobs}
    /\ in_max \in 1 .. MaxPerJob
    /\ out = NotCalled
    /\ in_lanes = 1
    /\ split_out = NotCalled
    /\ built = << >>
    /\ setup_pc = "idle"
    /\ progress_bars = FALSE
    /\ size = [l \in Threads |-> 1]
    /\ jobs = [l \in Threads |-> << <<l + 1>> >>]
    /\ job = [l \in Threads |-> -1]
    /\ finished = [l \in Threads |-> FALSE]
    /\ status = [l \in Threads |-> [text |-> "STARTED THREAD", n |-> 0]]
    /\ procs = [l \in Threads |-> << >>]
    /\ log = [l \in Threads |-> 0]
    /\ prev_n = [l \in Threads |-> 0]
    /\ timer = [l \in Threads |-> 0]
    /\ statusRet = [l \in Threads |-> "none"]
    /\ obsMax = [l \in Threads |-> 0]
    /\ obsTime = [l \in Threads |-> 0]
    /\ now = 0
    /\ pc = "idle"
    /\ idx = 0
    /\ t0 = 0
    /\ last_report_time = 0
    /\ report = NoReport
    /\ loopExited = FALSE

\* BlenderThread.__init__, lines 23-24: self.jobs, or the exception raised
Construct ==
    /\ out = NotCalled
    /\ out' = ChunkJobs(in_jobs, in_max)
    /\ UNCHANGED <<in_jobs, in_max, in_lanes, split_out, built, setup_pc,
                   cfgVars, laneVars, stallVars, log, now, coordVars>>

NextChunk == Construct

SpecChunk == InitChunk /\ [][NextChunk]_vars

\* ---------------------------------------------------------------------
\* The setup of a session: the jobs split over the lanes with list_split,
\* then BlenderThreadManager.__init__ constructing a BlenderThread per lane

\* a session that is not started
IdleSession ==
    /\ progress_bars = FALSE
    /\ size = [l \in Threads |-> 1]
    /\ jobs = [l \in Threads |-> << <<l + 1>> >>]
    /\ job = [l \in Threads |-> -1]
    /\ finished = [l \in Threads |-> FALSE]
    /\ status = [l \in Threads |-> [text |-> "STARTED THREAD", n |-> 0]]
    /\ procs = [l \in Threads |-> << >>]
    /\ log = [l \in Threads |-> 0]
    /\ prev_n = [l \in Threads |-> 0]
    /\ timer = [l \in Threads |-> 0]
    /\ statusRet = [l \in Threads |-> "none"]
    /\ obsMax = [l \in Threads |-> 0]
    /\ obsTime = [l \in Threads |-> 0]
    /\ now = 0
    /\ pc = "idle"
    /\ idx = 0
    /\ t0 = 0
    /\ last_report_time = 0
    /\ report = NoReport
    /\ loopExited = FALSE

InitSetup ==
    /\ in_jobs \in {JobList(n) : n \in 0 .. MaxSetupJobs}
    /\ in_lanes \in -MaxNonPositive .. MaxLanes
    /\ in_max \in -MaxNonPositive .. MaxSetupPerJob
    /\ out = NotCalled
    /\ split_out = NotCalled
    /\ built = << >>
    /\ setup_pc = "split"
    /\ IdleSession

sessionVars == <<cfgVars, laneVars, stallVars, log, now, coordVars>>

\* list_split(jobs, lanes): the job lists of the lanes, or the exception
SplitJobs ==
    /\ setup_pc = "split"
    /\ split_out' = list_split(in_jobs, in_lanes)
    /\ setup_pc' = IF split_out'.err = "none" THEN "construct" ELSE "error"
    /\ UNCHANGED <<in_jobs, in_lanes, in_max, out, built, sessionVars>>

\* BlenderThreadManager.__init__, lines 154-162: a BlenderThread per lane; an
\* exception raised by the construction of a lane ends the setup
ConstructLanes ==
    /\ setup_pc = "construct"
    /\ built' = [i \in 1 .. Len(split_out.parts) |->
                    ChunkJobs(split_out.parts[i], in_max)]
    /\ setup_pc' = IF \A i \in 1 .. Len(split_out.parts) : built'[i].err = "none"
                   THEN "ready" ELSE "error"
    /\ UNCHANGED <<in_jobs, in_lanes, in_max, out, split_out, sessionVars>>

\* start() is called on the manager that has been constructed, and launches
\* the first batch of each lane
StartSession ==
    /\ setup_pc = "ready"
    /\ setup_pc' = "started"
    /\ UNCHANGED <<in_jobs, in_lanes, in_max, out, split_out, built, sessionVars>>

NextSetup == SplitJobs \/ ConstructLanes \/ StartSession

SpecSetup == InitSetup /\ [][NextSetup]_vars

\* ---------------------------------------------------------------------
\* Properties

RECURSIVE Flatten(_)
\* the concatenation of a sequence of sequences
Flatten(ss) == IF Len(ss) = 0 THEN << >> ELSE Head(ss) \o Flatten(Tail(ss))

RECURSIVE SumEmitted(_)
\* the marker lines written by a sequence of processes
SumEmitted(ps) == IF Len(ps) = 0 THEN 0 ELSE Head(ps).emitted + SumEmitted(Tail(ps))

\* the jobs of the batch process k of lane l was started for
BatchSize(l, k) == Len(jobs[l][procs[l][k].batch + 1])

\* every batch of lane l has been launched
AllLaunched(l) ==
    \A b \in 0 .. njobs(l) - 1 : \E k \in 1 .. Len(procs[l]) : procs[l][k].batch = b

\* process k of lane l has exited with fewer markers than its batch has jobs
Crashed(l, k) == ~procs[l][k].alive /\ procs[l][k].emitted < BatchSize(l, k)

\* the current process of lane l is a fresh process for the batch of an
\* earlier process of the lane that has been terminated
Restarted(l) ==
    \E k \in 1 .. Len(procs[l]) - 1 :
        procs[l][k].batch = process(l).batch /\ ~procs[l][k].alive

\* C1: in every state where the polling loop has exited, each lane is
\* finished and every batch of every lane has been launched.
C1_LoopExitsOnlyWhenAllFinished ==
    loopExited => \A l \in Threads : finished[l] /\ AllLaunched(l)

\* C2: a lane has at most one live worker process, and a process is started
\* only after every earlier process of the lane has exited: every process of
\* the lane but the last one launched has exited.
C2_BatchesSequential ==
    \A l \in Threads : \A k \in 1 .. Len(procs[l]) - 1 : ~procs[l][k].alive

\* C2 witness: the second batch of a lane is running
C2_Witness ==
    \E l \in Threads : Len(procs[l]) = 2 /\ procs[l][2].alive /\ procs[l][2].batch = 1

\* C3: once the iteration of the loop that found a lane stalled (its process
\* has run for the timeout or longer without a marker and without exiting)
\* is over, the lane's process has been terminated and the same batch
\* restarted with a fresh process.
C3_StalledLaneIsRestarted ==
    \A l \in Threads :
        (/\ pc = "while"
         /\ statusRet[l] = "False"
         /\ \E k \in 1 .. Len(procs[l]) :
               /\ procs[l][k].emitted = 0
               /\ now - procs[l][k].started >= Timeout)
            => Restarted(l)

\* C4: after a process that exited with fewer markers than its batch has
\* jobs, the next process of the lane runs the same batch, and a lane is
\* finished only when every batch has been run by a process that wrote a
\* marker for each of its jobs.
C4_CrashedBatchIsRestarted ==
    \A l \in Threads :
        /\ \A k \in 1 .. Len(procs[l]) - 1 :
              Crashed(l, k) => procs[l][k + 1].batch = procs[l][k].batch
        /\ finished[l] =>
              \A b \in 0 .. njobs(l) - 1 :
                  \E k \in 1 .. Len(procs[l]) :
                      procs[l][k].batch = b /\ procs[l][k].emitted = BatchSize(l, k)

\* C5: start() behaves the same with and without progress bars: whenever it
\* has returned, the polling loop has run to its end, no worker process is
\* left running unwatched and the report has been written.
C5_SameWithoutProgressBars ==
    pc = "done" =>
        /\ loopExited
        /\ report.content # "unwritten"
        /\ \A l \in Threads : ~is_running(l)

\* check_status is called on lane l in this step
Polled(l) ==
    /\ pc = "lane" /\ idx = l
    /\ <<pc', idx'>> # <<pc, idx>>
    /\ ~finished[l]
    /\ ~success(l)

C7_FailuresAreLocal ==
    /\ loopExited => \A l \in Threads : ~is_running(l)
    /\ loopExited =>
          \A a, b \in Threads :
              (/\ a # b
               /\ \E k \in 1 .. Len(procs[a]) : Crashed(a, k)
               /\ \A k \in 1 .. Len(procs[b]) : ~Crashed(b, k))
                  => AllLaunched(b)

\* C8 as stated: success is true iff the markers written by the lane's current
\* process are as many as the jobs of the batch that process executes.
C8_SuccessIsPerBatch ==
    \A l \in Threads :
        Len(procs[l]) > 0 =>
            (success(l) <=> process(l).emitted = BatchSize(l, Len(procs[l])))

\* C8 amended: success is true iff the markers written by all the processes
\* of the lane so far, together, are as many as all the jobs of the lane.
C8_SuccessIsPerLane ==
    \A l \in Threads : success(l) <=> SumEmitted(procs[l]) = size[l]

\* C8 witness: a lane of two batches is successful while its second batch's
\* process has written only the markers of that batch
C8_Witness ==
    \E l \in Threads :
        /\ njobs(l) = 2 /\ Len(procs[l]) = 2
        /\ success(l)
        /\ process(l).emitted < size[l]

\* the sizes of the batches the chunking made
Sizes == [i \in 1 .. Len(out.parts) |-> Len(out.parts[i])]

C10_BatchesPartitionTheLane ==
    out # NotCalled =>
        /\ out.err = "none"
        /\ Flatten(out.parts) = in_jobs
        /\ \A i \in 1 .. Len(out.parts) : Sizes[i] >= 1 /\ Sizes[i] <= in_max

\* the sizes of the lanes list_split made
LaneSizes == [i \in 1 .. Len(split_out.parts) |-> Len(split_out.parts[i])]

\* C11: for every job list and every lane count L > 0, list_split returns
\* exactly L lanes whose sizes differ by at most 1 and whose concatenation in
\* lane order is the job list (so the order is kept inside each lane and no
\* job is duplicated or dropped).
C11_LanesPartitionTheJobs ==
    (split_out # NotCalled /\ in_lanes > 0) =>
        /\ split_out.err = "none"
        /\ Len(split_out.parts) = in_lanes
        /\ \A i, j \in 1 .. in_lanes :
              LaneSizes[i] - LaneSizes[j] \in {-1, 0, 1}
        /\ Flatten(split_out.parts) = in_jobs

\* C11 witness: 4 jobs split over 3 lanes of 2, 1 and 1 jobs
C11_Witness ==
    /\ split_out.err = "none"
    /\ in_lanes = 3 /\ Len(in_jobs) = 4
    /\ LaneSizes = <<2, 1, 1>>

\* C12: with a lane count or a MAX_PER_JOB that is not positive, the split
\* or the construction of the lanes ends with an error: the manager is never
\* constructed and start() never called.
C12_NonPositiveIsRejected ==
    /\ (in_lanes <= 0 /\ split_out # NotCalled) =>
          split_out.err = "ValueError" /\ setup_pc = "error"
    /\ (in_max <= 0 /\ built # << >>) =>
          setup_pc = "error" /\ \E i \in 1 .. Len(built) : built[i].err # "none"
    /\ (in_lanes <= 0 \/ in_max <= 0) => setup_pc \notin {"ready", "started"}

\* C12 witness: the construction of the lanes with MAX_PER_JOB = 0 has raised
C12_Witness ==
    /\ in_lanes > 0 /\ in_max = 0
    /\ Len(built) = in_lanes
    /\ setup_pc = "error"

\* C13: the progress count of a lane never decreases from one state to the
\* next, over the whole life of the lane, the start of a next batch's
\* process included.
C13_CountNeverDecreases ==
    [][\A l \in Threads : num_rendered(l)' >= num_rendered(l)]_vars

\* C13 witness: the process of a lane's second batch has written nothing yet
\* and the lane's count still holds the markers of the first batch
C13_Witness ==
    \E l \in Threads :
        /\ Len(procs[l]) = 2
        /\ process(l).emitted = 0
        /\ num_rendered(l) > 0

\* the jobs in the batches of the lanes: the jobs given to the session
InputJobs == SumTo([l \in Threads |-> Len(Flatten(jobs[l]))], num_threads - 1)

\* C14: len(session) is the number of jobs given, throughout, and the
\* aggregate count equals it only when every batch of every lane has been
\* launched and has written a marker for each of its jobs.
C14_AllRenderedOnlyWhenAllBatchesFull ==
    /\ SessionLen = InputJobs
    /\ SessionRendered = SessionLen =>
          \A l \in Threads : \A b \in 0 .. njobs(l) - 1 :
              \E k \in 1 .. Len(procs[l]) :
                  procs[l][k].batch = b /\ procs[l][k].emitted = BatchSize(l, k)

\* C14 witness: everything is rendered in a session with a lane of two batches
C14_Witness ==
    /\ SessionRendered = SessionLen
    /\ \E l \in Threads : njobs(l) = 2

\* the coordinator takes a step
Stepped == <<pc', idx'>> # <<pc, idx>>

\* check_in is called on lane l in this step
CheckInCalled(l) ==
    /\ Stepped
    /\ idx = l
    /\ pc = "seed" \/ (pc = "lane" /\ ~finished[l])

\* C15: check_in on a lane whose process is running changes nothing of the
\* lane; on a lane whose process is not running it advances the batch index
\* by one, and then either sets finished and starts no process (the index is
\* past the last batch) or starts exactly one process, for the batch at the
\* new index, and sets a running-job status.
C15_CheckInEffect ==
    [][\A l \in Threads : CheckInCalled(l) =>
          IF is_running(l)
          THEN /\ job'[l] = job[l] /\ procs'[l] = procs[l]
               /\ finished'[l] = finished[l] /\ status'[l] = status[l]
          ELSE /\ job'[l] = job[l] + 1
               /\ IF job'[l] >= njobs(l)
                  THEN /\ finished'[l]
                       /\ procs'[l] = procs[l]
                  ELSE /\ finished'[l] = finished[l]
                       /\ Len(procs'[l]) = Len(procs[l]) + 1
                       /\ SubSeq(procs'[l], 1, Len(procs[l])) = procs[l]
                       /\ procs'[l][Len(procs'[l])].batch = job'[l]
                       /\ procs'[l][Len(procs'[l])].alive
                       /\ status'[l] = [text |-> "RUNNING JOB", n |-> job'[l] + 1]]_vars

\* C15 witness: check_in has taken a lane of two batches past its last batch
C15_Witness ==
    \E l \in Threads :
        /\ njobs(l) = 2 /\ job[l] = 2
        /\ finished[l]
        /\ status[l].text = "COMPLETED"

\* update_report is called in this step
ReportCalled ==
    \/ pc = "final" /\ pc' = "done"
    \/ pc = "while" /\ pc' = "lane" /\ now - last_report_time >= ReportEvery

\* C16: update_report called while nothing is rendered writes a report with
\* no content; called while the count is positive it writes the fields, with
\* the count not above the quota, a remaining number of jobs and an elapsed
\* time that are not negative (so the estimated end is not before now).
C16_ReportContent ==
    [][ReportCalled =>
          IF SessionRendered = 0
          THEN report'.content = "empty"
          ELSE /\ report'.content = "fields"
               /\ report'.rendered = SessionRendered
               /\ report'.quota = SessionLen
               /\ report'.rendered <= report'.quota
               /\ report'.remaining = report'.quota - report'.rendered
               /\ report'.remaining >= 0
               /\ report'.elapsed >= 0]_vars

\* C16 witness: a report written in the middle of a session
C16_Witness ==
    /\ report.content = "fields"
    /\ report.remaining > 0
    /\ report.elapsed > 0

\* C17: when every worker process launched exits in the end and start()
\* keeps taking steps, start(progress_bars=True) leaves its polling loop and
\* returns, the final report written.
C17_StartReturns ==
    <>(progress_bars =>
         (pc = "done" /\ loopExited /\ report.content # "unwritten"))

\* C17 witness: start(progress_bars=True) has returned after a loop that
\* launched the second batch of a lane
C17_Witness ==
    /\ progress_bars /\ pc = "done" /\ loopExited
    /\ report.content # "unwritten"
    /\ \E l \in Threads : Len(procs[l]) = 2

\* the batches launched on lane l so far are 0, 1, 2, ... in this order
LaunchedInOrder(l) ==
    \A k \in 1 .. Len(procs[l]) : procs[l][k].batch = k - 1

\* C18: each batch index of a lane is launched at most once and the batches
\* are launched in increasing order 0, 1, 2, ... with none skipped: a step
\* launches at most one process on a lane, for the batch that follows the
\* ones launched before, never past the last batch, and the batch of a
\* process launched earlier never changes.
C18_BatchesLaunchedOnceInOrder ==
    [][\A l \in Threads :
          /\ LaunchedInOrder(l)'
          /\ Len(procs[l]) <= Len(procs'[l])
          /\ Len(procs'[l]) <= Len(procs[l]) + 1
          /\ Len(procs'[l]) <= njobs(l)
          /\ \A k \in 1 .. Len(procs[l]) : procs'[l][k].batch = procs[l][k].batch
          /\ Len(procs'[l]) > Len(procs[l]) =>
                 /\ CheckInCalled(l)
                 /\ procs'[l][Len(procs'[l])].batch = Len(procs[l])]_vars

\* C18 witness: a lane has launched its batches 0 and 1 and both processes
\* have exited
C18_Witness ==
    \E l \in Threads :
        /\ Len(procs[l]) = 2
        /\ procs[l][1].batch = 0 /\ procs[l][2].batch = 1
        /\ ~procs[l][1].alive /\ ~procs[l][2].alive

\* the batch index of lane l is in range, and a finished lane is past its
\* last batch with no process running
LaneIndexInv(l) ==
    /\ -1 <= job[l] /\ job[l] <= njobs(l)
    /\ finished[l] => (job[l] = njobs(l) /\ ~is_running(l))

\* C19: in every reachable state -1 <= job <= njobs holds of each lane and
\* finished is true only if job = njobs and no process of the lane is
\* running; once finished is true it stays true and check_in is not called
\* on the lane again: no step changes its batch index, its status or the
\* number of its processes.
C19_IndexRangeAndFinishedStable ==
    [][\A l \in Threads :
          /\ LaneIndexInv(l)
          /\ LaneIndexInv(l)'
          /\ finished[l] =>
                 /\ finished'[l]
                 /\ job'[l] = job[l]
                 /\ status'[l] = status[l]
                 /\ Len(procs'[l]) = Len(procs[l])]_vars

\* C19 witness: the loop comes to a finished lane while the process of
\* another lane is still running
C19_Witness ==
    /\ pc = "lane"
    /\ finished[idx]
    /\ \E l \in Threads : is_running(l)

\* C20: check_status returns False on a lane only when at least the timeout
\* has passed since the current process of the lane was started.
C20_NoStallBeforeTimeoutOfProcess ==
    [][\A l \in Threads :
          (Polled(l) /\ statusRet'[l] = "False") =>
              now - procs'[l][Len(procs'[l])].started >= Timeout]_vars

====
